---- MODULE Spec2Model ----
(***************************************************************************)
(* Model of src/server/server.py: the ServerState random walk (latency and *)
(* error flag driven by the time since the last request) and the           *)
(* handle_request endpoint handler that Flask runs once per GET /data.     *)
(*                                                                         *)
(* Fixed-point units (all quantities are exact integers):                  *)
(*   time (time.time(), time_diff)        0.1 s                            *)
(*   latency_scale, error_scale           1/100                            *)
(*   random.uniform(-0.1, 0.1)            1/100 s                          *)
(*   latency, latency_change              1/10000 s                        *)
(*   random.random()                      1/1000                           *)
(*   error_rate, the literal 0.2          1/100                            *)
(***************************************************************************)
EXTENDS Integers, FiniteSets, Sequences, TLC

VARIABLES clock, moves, pc, state, frame, steps, remaining, response,
          started, lastLeft, hasLeft, obj, ncalls, olast, fn

vars == <<clock, moves, pc, state, frame, steps, remaining, response,
          started, lastLeft, hasLeft, obj, ncalls, olast, fn>>

serverVars == <<pc, state, frame, steps, remaining, response, started,
                lastLeft, hasLeft>>

objVars == <<obj, ncalls, olast>>

(* ------------------------------ bounds -------------------------------- *)

\* number of requests handled in one run
MaxRequests == 2
\* number of times the wall clock changes in one run
MaxClockMoves == 2
\* number of method calls made on the single object of SpecObj
MaxCalls == 3

\* the Flask worker threads that serve requests at the same time
Reqs == {1, 2}

\* amounts by which the wall clock advances between two steps (0.1 s units)
TickSteps == {10, 200}
\* amount by which the wall clock is set back (time.time() is not monotonic)
BackSteps == {10}

(* ------------------------- program constants -------------------------- *)

\* server.py:10  self.error_rate = 0.01
ErrorRateInit == 1
\* server.py:36  time_diff / 5.0
LatencyPeriod == 50
\* server.py:41  time_diff / 10.0
ErrorPeriod == 100
\* server.py:36,41  max(..., 0.1)
ScaleFloor == 10
\* server.py:36,41  min(..., 2.0)
ScaleCeil == 200
\* server.py:37  random.uniform(-0.1, 0.1)
DrawMax == 10
\* server.py:42  random.random() < 0.2 * error_scale
FlipBias == 20
\* server.py:53  status of the error response
StatusError == 500
\* server.py:57  status of the successful response
StatusOk == 200

\* values drawn by random.uniform(-0.1, 0.1) in Spec, 1/100 s
Deltas == {-DrawMax, 5}
\* values drawn by random.random() in Spec, 1/1000
Draws == {19, 500}
\* values drawn by random.uniform(-0.1, 0.1) in SpecObj, 1/100 s
ObjDeltas == {-DrawMax, 5, DrawMax}
\* values drawn by random.random() in SpecObj, 1/1000
ObjDraws == {19, 20, 399, 500}

(* --------------------------- pure helpers ----------------------------- *)

Max(a, b) == IF a >= b THEN a ELSE b

Min(a, b) == IF a <= b THEN a ELSE b

\* ServerState.__init__ (server.py:8-12), constructed when time.time() = now
ServerState_init(now) ==
    [latency |-> 0, error_rate |-> ErrorRateInit, error_state |-> FALSE,
     last_request_time |-> now]

\* mutant of LatencyScale: the 2.0 ceiling is left out
LatencyScale_NoCeil(time_diff) ==
    Max((time_diff * 100) \div LatencyPeriod, ScaleFloor)

\* mutant of LatencyScale: the 0.1 floor is left out
LatencyScale_NoFloor(time_diff) ==
    Min((time_diff * 100) \div LatencyPeriod, ScaleCeil)

\* server.py:36  latency_scale = min(max(time_diff / 5.0, 0.1), 2.0)
LatencyScale(time_diff) ==
    Min(Max((time_diff * 100) \div LatencyPeriod, ScaleFloor), ScaleCeil)

\* mutant of LatencyChange: the draw is not scaled
LatencyChange_Unscaled(delta, latency_scale) == delta * 100

\* server.py:37  latency_change = random.uniform(-0.1, 0.1) * latency_scale
LatencyChange(delta, latency_scale) == delta * latency_scale

\* mutant of NewLatency: the clamp at 0 is left out
NewLatency_NoClamp(latency, latency_change) == latency + latency_change

\* server.py:38  self.latency = max(0.0, self.latency + latency_change)
NewLatency(latency, latency_change) == Max(0, latency + latency_change)

\* server.py:41  error_scale = min(max(time_diff / 10.0, 0.1), 2.0)
ErrorScale(time_diff) ==
    Min(Max((time_diff * 100) \div ErrorPeriod, ScaleFloor), ScaleCeil)

\* server.py:42  random.random() < 0.2 * error_scale
\* u/1000 < (FlipBias/100) * (error_scale/100)  <=>  10 u < FlipBias * error_scale
\* (s is self; the code does not read s.error_rate here)
ShouldFlip(s, u, error_scale) == 10 * u < FlipBias * error_scale

\* server.py:43  self.error_state = not self.error_state
Flip(error_state) == ~error_state

\* mutant of NextErrorState: the flag is negated whatever the draw
NextErrorState_Always(error_state, flip) == ~error_state

\* server.py:42-43  if <flip>: self.error_state = not self.error_state
NextErrorState(error_state, flip) ==
    IF flip THEN Flip(error_state) ELSE error_state

\* mutant of SimulateError: the test is inverted
SimulateError_Negated(s) == ~s.error_state

\* Python's float division raises ZeroDivisionError iff the divisor is 0
DivRaises(divisor) == divisor = 0

\* mutant of UpdateState: the call also overwrites error_rate
UpdateState_WritesRate(s, now, delta, u) ==
    LET time_diff == now - s.last_request_time
        lscale == LatencyScale(time_diff)
        escale == ErrorScale(time_diff)
    IN  [s EXCEPT !.last_request_time = now,
                  !.latency = NewLatency(@, LatencyChange(delta, lscale)),
                  !.error_state =
                      NextErrorState(@, ShouldFlip(s, u, escale)),
                  !.error_rate = FlipBias]

\* ServerState.update_state (server.py:31-43) on object s, time.time()
\* returning now and the two draws being delta and u
UpdateState(s, now, delta, u) ==
    LET time_diff == now - s.last_request_time
        lscale == LatencyScale(time_diff)
        escale == ErrorScale(time_diff)
    IN  [s EXCEPT !.last_request_time = now,
                  !.latency = NewLatency(@, LatencyChange(delta, lscale)),
                  !.error_state =
                      NextErrorState(@, ShouldFlip(s, u, escale))]

\* ServerState.simulate_error (server.py:23-24)
SimulateError(s) == s.error_state

\* mutant of Reset: error_state is not cleared
Reset_KeepsError(s) == [s EXCEPT !.latency = 0]

\* ServerState.reset (server.py:14-16)
Reset(s) == [s EXCEPT !.latency = 0, !.error_state = FALSE]

\* the (latency, error_state, last_request_time) part of an object
Fields(s) ==
    [latency |-> s.latency, error_state |-> s.error_state,
     last_request_time |-> s.last_request_time]

(* --------------------- handle_request, per thread --------------------- *)

\* mutant of HandleRequestSteps: the wait comes before the update
HandleRequestSteps_WaitFirst == <<"l47", "l49", "l48", "l52">>

\* the statements of handle_request in program order (server.py:47-52)
HandleRequestSteps == <<"l47", "l48", "l49", "l52">>

\* first program point of a statement of handle_request
EntryOf(stmt) ==
    CASE stmt = "l48" -> "l31"
      [] stmt = "l49" -> "l21"
      [] stmt = "l52" -> "l52"
      [] OTHER -> stmt

\* program point reached when statement stmt of handle_request completes
AfterStmt(stmt) ==
    LET i == CHOOSE k \in 1..Len(HandleRequestSteps) : HandleRequestSteps[k] = stmt
    IN  IF i < Len(HandleRequestSteps)
        THEN EntryOf(HandleRequestSteps[i + 1])
        ELSE "responded"

\* mutant of NewRequestState: the request works on the one object that all
\* requests share, with the fields the previous update_state call left
NewRequestState_Shared(now) ==
    IF hasLeft
    THEN [latency |-> lastLeft.latency, error_rate |-> ErrorRateInit,
          error_state |-> lastLeft.error_state,
          last_request_time |-> lastLeft.last_request_time]
    ELSE ServerState_init(now)

\* server.py:47  state = ServerState(), a new object for every request
NewRequestState(now) == ServerState_init(now)

\* mutant of Runnable: a waiting thread holds a lock that every step of the
\* other threads needs
Runnable_WaitHoldsLock(r) == \A q \in Reqs \ {r} : pc[q] # "sleeping"

\* update_state, simulate_latency and handle_request take no lock
\* (server.py:18-49): a worker thread can always take its next step
Runnable(r) == TRUE

NoFrame ==
    [current_time |-> 0, time_diff |-> 0, pre_latency |-> 0, delta |-> 0,
     latency_scale |-> 0, latency_change |-> 0, error_scale |-> 0, u |-> 0,
     flipped |-> FALSE, out_latency |-> 0, out_error |-> FALSE, waited |-> 0]

\* what the last method call on the single object of SpecObj did
NoCall ==
    [op |-> "init", pre |-> ServerState_init(0), time_diff |-> 0, delta |-> 0,
     latency_scale |-> 0, error_scale |-> 0, u |-> 0, flipped |-> FALSE,
     flips |-> 0, updates |-> 0, now |-> 0]

\* the two latency steps compared in SpecFn: elapsed times e1 and e2, one
\* draw d, and the scaled changes m1 and m2 once computed
NoFn == [e1 |-> 0, e2 |-> 0, d |-> 0, m1 |-> 0, m2 |-> 0, done |-> FALSE]

NoResponse == [status |-> 0, body |-> "none"]

Init ==
    /\ clock = 0
    /\ moves = 0
    /\ pc = [r \in Reqs |-> "idle"]
    /\ state = [r \in Reqs |-> ServerState_init(0)]
    /\ frame = [r \in Reqs |-> NoFrame]
    /\ steps = [r \in Reqs |-> {}]
    /\ remaining = [r \in Reqs |-> 0]
    /\ response = [r \in Reqs |-> NoResponse]
    /\ started = 0
    /\ lastLeft = Fields(ServerState_init(0))
    /\ hasLeft = FALSE
    /\ obj = ServerState_init(0)
    /\ ncalls = 0
    /\ olast = NoCall
    /\ fn = NoFn

\* time passes: time.time() advances and every sleeping thread sleeps on
Tick(dt) ==
    /\ moves < MaxClockMoves
    /\ moves' = moves + 1
    /\ clock' = clock + dt
    /\ remaining' = [r \in Reqs |-> Max(0, remaining[r] - dt * 1000)]
    /\ UNCHANGED <<pc, state, frame, steps, response, started, lastLeft,
                   hasLeft, objVars, fn>>

\* the wall clock is set back (time.time() is not monotonic); sleeps are
\* measured on the monotonic clock and are not affected
StepBack(dt) ==
    /\ moves < MaxClockMoves
    /\ moves' = moves + 1
    /\ clock - dt >= 0
    /\ clock' = clock - dt
    /\ UNCHANGED <<serverVars, objVars, fn>>

\* server.py:47  state = ServerState(); the request is given to the first
\* free worker thread
HandleRequest_l47(r) ==
    /\ pc[r] = "idle"
    /\ \A q \in Reqs : pc[q] = "idle" => r <= q
    /\ started < MaxRequests
    /\ started' = started + 1
    /\ state' = [state EXCEPT ![r] = NewRequestState(clock)]
    /\ frame' = [frame EXCEPT ![r] = NoFrame]
    /\ steps' = [steps EXCEPT ![r] = {}]
    /\ response' = [response EXCEPT ![r] = NoResponse]
    /\ pc' = [pc EXCEPT ![r] = AfterStmt("l47")]
    /\ UNCHANGED <<clock, moves, remaining, lastLeft, hasLeft, objVars, fn>>

\* server.py:31-33  current_time = time.time()
\*                  time_diff = current_time - self.last_request_time
\*                  self.last_request_time = current_time
UpdateState_l31(r) ==
    /\ pc[r] = "l31"
    /\ Runnable(r)
    /\ frame' = [frame EXCEPT ![r].current_time = clock,
                              ![r].time_diff = clock - state[r].last_request_time]
    /\ state' = [state EXCEPT ![r].last_request_time = clock]
    /\ steps' = [steps EXCEPT ![r] = @ \cup {"l31", "l33"}]
    /\ pc' = [pc EXCEPT ![r] = "l36"]
    /\ UNCHANGED <<clock, moves, remaining, response, started, lastLeft,
                   hasLeft, objVars, fn>>

\* server.py:36-38  the latency step, delta drawn by random.uniform
UpdateState_l36(r) ==
    /\ pc[r] = "l36"
    /\ Runnable(r)
    /\ \E delta \in Deltas :
         LET scale == LatencyScale(frame[r].time_diff)
             change == LatencyChange(delta, scale)
         IN  /\ frame' = [frame EXCEPT ![r].pre_latency = state[r].latency,
                                       ![r].delta = delta,
                                       ![r].latency_scale = scale,
                                       ![r].latency_change = change]
             /\ state' = [state EXCEPT ![r].latency =
                              NewLatency(state[r].latency, change)]
    /\ steps' = [steps EXCEPT ![r] = @ \cup {"l38"}]
    /\ pc' = [pc EXCEPT ![r] = "l41"]
    /\ UNCHANGED <<clock, moves, remaining, response, started, lastLeft, hasLeft,
                   objVars, fn>>

\* server.py:41-43  the error-state step, u drawn by random.random; the
\* call returns
UpdateState_l41(r) ==
    /\ pc[r] = "l41"
    /\ Runnable(r)
    /\ \E u \in Draws :
         LET scale == ErrorScale(frame[r].time_diff)
             flip == ShouldFlip(state[r], u, scale)
             err == NextErrorState(state[r].error_state, flip)
         IN  /\ frame' = [frame EXCEPT ![r].error_scale = scale,
                                       ![r].u = u,
                                       ![r].flipped = flip,
                                       ![r].out_latency = state[r].latency,
                                       ![r].out_error = err]
             /\ state' = [state EXCEPT ![r].error_state = err]
             /\ lastLeft' = Fields([state[r] EXCEPT !.error_state = err])
    /\ hasLeft' = TRUE
    /\ steps' = [steps EXCEPT ![r] = @ \cup {"l43"}]
    /\ pc' = [pc EXCEPT ![r] = AfterStmt("l48")]
    /\ UNCHANGED <<clock, moves, remaining, response, started, objVars, fn>>

\* server.py:49, 18-21  state.simulate_latency(): time.sleep(self.latency)
\* begins
SimulateLatency_l21(r) ==
    /\ pc[r] = "l21"
    /\ Runnable(r)
    /\ remaining' = [remaining EXCEPT ![r] = state[r].latency]
    /\ frame' = [frame EXCEPT ![r].waited = state[r].latency]
    /\ steps' = [steps EXCEPT ![r] = @ \cup {"l21"}]
    /\ pc' = [pc EXCEPT ![r] = "sleeping"]
    /\ UNCHANGED <<clock, moves, state, response, started, lastLeft, hasLeft,
                   objVars, fn>>

\* server.py:21  time.sleep returns once the delay has elapsed
SleepEnd(r) ==
    /\ pc[r] = "sleeping"
    /\ Runnable(r)
    /\ remaining[r] = 0
    /\ pc' = [pc EXCEPT ![r] = AfterStmt("l49")]
    /\ UNCHANGED <<clock, moves, state, frame, steps, remaining, response, started,
                   lastLeft, hasLeft, objVars, fn>>

\* server.py:52-57  the response
HandleRequest_l52(r) ==
    /\ pc[r] = "l52"
    /\ Runnable(r)
    /\ response' = [response EXCEPT ![r] =
                        IF SimulateError(state[r])
                        THEN [status |-> StatusError, body |-> "error"]
                        ELSE [status |-> StatusOk, body |-> "message"]]
    /\ steps' = [steps EXCEPT ![r] = @ \cup {"l52"}]
    /\ pc' = [pc EXCEPT ![r] = "responded"]
    /\ UNCHANGED <<clock, moves, state, frame, remaining, started, lastLeft, hasLeft,
                   objVars, fn>>

\* the handler has returned: the frame and its ServerState are dropped and
\* the worker thread is free again
Return(r) ==
    /\ pc[r] = "responded"
    /\ Runnable(r)
    /\ pc' = [pc EXCEPT ![r] = "idle"]
    /\ state' = [state EXCEPT ![r] = ServerState_init(0)]
    /\ frame' = [frame EXCEPT ![r] = NoFrame]
    /\ steps' = [steps EXCEPT ![r] = {}]
    /\ response' = [response EXCEPT ![r] = NoResponse]
    /\ UNCHANGED <<clock, moves, remaining, started, lastLeft, hasLeft, objVars, fn>>

Next ==
    \/ \E dt \in TickSteps : Tick(dt)
    \/ \E dt \in BackSteps : StepBack(dt)
    \/ \E r \in Reqs : HandleRequest_l47(r)
    \/ \E r \in Reqs : UpdateState_l31(r)
    \/ \E r \in Reqs : UpdateState_l36(r)
    \/ \E r \in Reqs : UpdateState_l41(r)
    \/ \E r \in Reqs : SimulateLatency_l21(r)
    \/ \E r \in Reqs : SleepEnd(r)
    \/ \E r \in Reqs : HandleRequest_l52(r)
    \/ \E r \in Reqs : Return(r)

Spec == Init /\ [][Next]_vars

(* ------------- one ServerState object, called sequentially ------------- *)

\* mutant of UpdateStateRaises: the call rejects a clock that went backwards
UpdateStateRaises_OnClockStepBack == clock < obj.last_request_time

\* the statements of update_state that can raise: the divisions at
\* server.py:36 and server.py:41
UpdateStateRaises == DivRaises(LatencyPeriod) \/ DivRaises(ErrorPeriod)

\* ServerState.update_state (server.py:26-43) as one call on obj; a call
\* that raises has already written last_request_time (server.py:33)
ObjUpdateState ==
    /\ ncalls < MaxCalls
    /\ ncalls' = ncalls + 1
    /\ IF UpdateStateRaises
       THEN /\ obj' = [obj EXCEPT !.last_request_time = clock]
            /\ olast' = [NoCall EXCEPT !.op = "raised", !.pre = obj,
                                       !.flips = olast.flips,
                                       !.updates = olast.updates,
                                       !.now = clock]
       ELSE \E delta \in ObjDeltas, u \in ObjDraws :
              LET time_diff == clock - obj.last_request_time
                  escale == ErrorScale(time_diff)
                  flip == ShouldFlip(obj, u, escale)
              IN  /\ obj' = UpdateState(obj, clock, delta, u)
                  /\ olast' = [op |-> "update_state", pre |-> obj,
                               time_diff |-> time_diff, delta |-> delta,
                               latency_scale |-> LatencyScale(time_diff),
                               error_scale |-> escale,
                               u |-> u, flipped |-> flip,
                               flips |-> olast.flips + (IF flip THEN 1 ELSE 0),
                               updates |-> olast.updates + 1,
                               now |-> clock]
    /\ UNCHANGED <<clock, moves, serverVars, fn>>

\* ServerState.reset (server.py:14-16) as one call on obj
ObjReset ==
    /\ ncalls < MaxCalls
    /\ ncalls' = ncalls + 1
    /\ obj' = Reset(obj)
    /\ olast' = [NoCall EXCEPT !.op = "reset", !.pre = obj,
                               !.flips = olast.flips,
                               !.updates = olast.updates]
    /\ UNCHANGED <<clock, moves, serverVars, fn>>

ObjNext ==
    \/ \E dt \in TickSteps : Tick(dt)
    \/ \E dt \in BackSteps : StepBack(dt)
    \/ ObjUpdateState
    \/ ObjReset

SpecObj == Init /\ [][ObjNext]_vars

(* ------------- the latency step as a function of elapsed time ---------- *)

\* elapsed times tried, 0.1 s units
FnElapsed == {-10, 0, 1, 4, 5, 6, 10, 50, 99, 100, 101, 250}

\* draws of random.uniform(-0.1, 0.1) tried, 1/100 s
FnDeltas == (-DrawMax)..DrawMax

InitFn ==
    /\ clock = 0
    /\ moves = 0
    /\ pc = [r \in Reqs |-> "idle"]
    /\ state = [r \in Reqs |-> ServerState_init(0)]
    /\ frame = [r \in Reqs |-> NoFrame]
    /\ steps = [r \in Reqs |-> {}]
    /\ remaining = [r \in Reqs |-> 0]
    /\ response = [r \in Reqs |-> NoResponse]
    /\ started = 0
    /\ lastLeft = Fields(ServerState_init(0))
    /\ hasLeft = FALSE
    /\ obj = ServerState_init(0)
    /\ ncalls = 0
    /\ olast = NoCall
    /\ \E e1 \in FnElapsed, e2 \in FnElapsed, d \in FnDeltas :
          fn = [NoFn EXCEPT !.e1 = e1, !.e2 = e2, !.d = d]

\* server.py:36-37 applied to the same draw and the two elapsed times
ApplyLatencyStep ==
    /\ ~fn.done
    /\ fn' = [fn EXCEPT !.m1 = LatencyChange(fn.d, LatencyScale(fn.e1)),
                        !.m2 = LatencyChange(fn.d, LatencyScale(fn.e2)),
                        !.done = TRUE]
    /\ UNCHANGED <<clock, moves, serverVars, objVars>>

NextFn == ApplyLatencyStep

SpecFn == InitFn /\ [][NextFn]_vars

(* ------------------------------- claims -------------------------------- *)

\* C1 (SpecObj): after every sequence of update_state calls on an object
\* that started with latency 0, whatever the elapsed times and the draws,
\* latency >= 0.
C1_NonNegative == obj.latency >= 0

\* an update_state call whose negative change exceeded a positive latency
\* and was clamped at 0
C1_Witness ==
    /\ olast.op = "update_state"
    /\ olast.pre.latency > 0
    /\ olast.pre.latency + olast.delta * olast.latency_scale < 0
    /\ obj.latency = 0

\* C2 (Spec): the latency, error_state and last_request_time that a
\* request's update_state call starts from are those left by the previous
\* update_state call of any request.
C2_Persistence ==
    [][\A r \in Reqs :
          (hasLeft /\ pc[r] = "l31" /\ pc'[r] = "l36")
              => Fields(state[r]) = lastLeft]_vars

\* r has begun its update_state call and has not returned from it
InUpdateState(r) == pc[r] \in {"l36", "l41"}

\* C3 (Spec): update_state calls of different requests are serialized: no
\* two requests are inside update_state at the same time.
C3_Serialized ==
    \A r, q \in Reqs : r # q => ~(InUpdateState(r) /\ InUpdateState(q))

\* C4 as stated (SpecObj): in every step error_state keeps its value or is
\* negated by a flip of update_state; nothing else sets it.
C4_ToggleOnly ==
    [][\/ obj.error_state' = obj.error_state
       \/ /\ olast'.op = "update_state"
          /\ olast'.flipped
          /\ obj.error_state' = ~obj.error_state]_vars

\* C4 as amended (SpecObj): in every step error_state keeps its value, is
\* negated by a flip of update_state, or is set to FALSE by reset; and
\* while no flip has happened it is FALSE.
C4_ToggleOrReset ==
    /\ [](olast.flips = 0 => ~obj.error_state)
    /\ [][\/ obj.error_state' = obj.error_state
          \/ /\ olast'.op = "update_state"
             /\ olast'.flipped
             /\ obj.error_state' = ~obj.error_state
          \/ /\ olast'.op = "reset"
             /\ obj.error_state' = FALSE]_vars

\* reset has just cleared an error_state that a flip had set
C4_Witness ==
    /\ olast.op = "reset"
    /\ olast.pre.error_state
    /\ ~obj.error_state
    /\ olast.flips > 0

\* C5 (Spec): a request that has responded has emitted exactly one
\* response: status 500 with the error body if the error_state produced by
\* its update_state call is TRUE, else status 200 with the message body;
\* before that it has emitted none.
C5_ResponseDecision ==
    \A r \in Reqs :
        /\ pc[r] = "responded" =>
              /\ "l43" \in steps[r]
              /\ frame[r].out_error =>
                    response[r] = [status |-> 500, body |-> "error"]
              /\ ~frame[r].out_error =>
                    response[r] = [status |-> 200, body |-> "message"]
        /\ pc[r] # "responded" => response[r].status = 0

\* a request whose update_state call flipped the flag has answered 500
C5_Witness ==
    \E r \in Reqs :
        /\ pc[r] = "responded"
        /\ frame[r].flipped
        /\ frame[r].out_error
        /\ response[r].status = 500

\* C6 (Spec): the latency scale and the error scale used by update_state
\* lie in [0.1, 2.0] (10..200 hundredths) for every elapsed time, negative
\* ones included.
C6_BoundedScale ==
    \A r \in Reqs :
        /\ "l38" \in steps[r] => frame[r].latency_scale \in 10..200
        /\ "l43" \in steps[r] => frame[r].error_scale \in 10..200

\* an update_state call that saw the clock go backwards has used both scales
C6_Witness ==
    \E r \in Reqs :
        /\ "l43" \in steps[r]
        /\ frame[r].time_diff < 0
        /\ frame[r].latency_scale = 10
        /\ frame[r].error_scale = 10

\* C7 (Spec): update_state flips error_state iff the draw is strictly below
\* error_rate * error_scale, error_rate being the object's own field set at
\* construction.
C7_FlipByOwnRate ==
    \A r \in Reqs :
        "l43" \in steps[r] =>
            (frame[r].flipped <=>
                10 * frame[r].u < state[r].error_rate * frame[r].error_scale)

\* max(0, L + d * clamp(e / 5.0, 0.1, 2.0)) in the model's units
C8_Expected(L, e, d) ==
    LET raw == 2 * e
        scale == IF raw < 10 THEN 10 ELSE IF raw > 200 THEN 200 ELSE raw
        sum == L + d * scale
    IN  IF sum < 0 THEN 0 ELSE sum

\* C8 (SpecObj): update_state called with latency L, elapsed e and draw d
\* leaves latency = max(0, L + d * clamp(e/5.0, 0.1, 2.0)); with L = 0,
\* e = 1.0 s and d = 0.05 the scale is 0.2 and the latency 0.01 s.
C8_LatencyStep ==
    olast.op = "update_state" =>
        /\ obj.latency =
               C8_Expected(olast.pre.latency, olast.time_diff, olast.delta)
        /\ (olast.pre.latency = 0 /\ olast.time_diff = 10 /\ olast.delta = 5)
               => (olast.latency_scale = 20 /\ obj.latency = 100)

\* a call with a positive prior latency, a mid-range scale and a positive
\* draw
C8_Witness ==
    /\ olast.op = "update_state"
    /\ olast.pre.latency > 0
    /\ olast.time_diff = 10
    /\ olast.delta = 5
    /\ obj.latency = olast.pre.latency + 100

\* C9 (Spec): a request begins its wait only after its update_state call
\* has made all its writes, and from the beginning of the wait on no step
\* changes that request's object.
C9_WaitAfterAdvance ==
    /\ [](\A r \in Reqs :
            "l21" \in steps[r] => {"l31", "l33", "l38", "l43"} \subseteq steps[r])
    /\ [][\A r \in Reqs :
            ("l21" \in steps[r] /\ pc'[r] # "idle") => state'[r] = state[r]]_vars

\* a request is in a wait of positive length, its update_state call done
C9_Witness ==
    \E r \in Reqs :
        /\ pc[r] = "sleeping"
        /\ remaining[r] > 0
        /\ state[r].latency = frame[r].out_latency
        /\ "l43" \in steps[r]

\* C10 (Spec): while a request is in its wait, every other request that is
\* at a step of its update_state call can take that step.
C10_NonBlockingWait ==
    \A r, q \in Reqs :
        (r # q /\ pc[r] = "sleeping") =>
            /\ pc[q] = "l31" => ENABLED UpdateState_l31(q)
            /\ pc[q] = "l36" => ENABLED UpdateState_l36(q)
            /\ pc[q] = "l41" => ENABLED UpdateState_l41(q)

\* one request is in a wait that has not elapsed while another is in the
\* middle of its update_state call
C10_Witness ==
    \E r, q \in Reqs :
        /\ r # q
        /\ pc[r] = "sleeping"
        /\ remaining[r] > 0
        /\ pc[q] = "l41"

Abs(x) == IF x < 0 THEN -x ELSE x

\* C12 (SpecFn): for one draw d and elapsed times e1 <= e2, the magnitude
\* of the scaled latency change for e2 is at least that for e1.
C12_IdleAmplification ==
    (fn.done /\ fn.e1 <= fn.e2) => Abs(fn.m2) >= Abs(fn.m1)

\* a longer idle time has given a strictly larger change for the same draw
C12_Witness ==
    /\ fn.done
    /\ fn.e1 < fn.e2
    /\ fn.d # 0
    /\ Abs(fn.m2) > Abs(fn.m1)

\* C13 (SpecObj): update_state never raises: no call ends in an exception,
\* a call can be made in every reachable state, and every call leaves a
\* latency >= 0 and a boolean error_state.
C13_AlwaysSucceeds ==
    /\ olast.op # "raised"
    /\ ncalls < MaxCalls => ENABLED ObjUpdateState
    /\ olast.op = "update_state" =>
          (obj.latency \in Nat /\ obj.error_state \in BOOLEAN)

\* a call made after the wall clock went backwards has completed
C13_Witness ==
    /\ olast.op = "update_state"
    /\ olast.time_diff < 0
    /\ olast.updates >= 2

\* C14 (SpecObj): after each update_state call last_request_time is that
\* call's now, and it never moves to an earlier value.
C14_MonotoneLastObserved ==
    /\ [](olast.op = "update_state" => obj.last_request_time = olast.now)
    /\ [][obj.last_request_time' >= obj.last_request_time]_vars

\* C15 as stated (Spec): every request waits a latency in [0, 0.01] s
\* (0..100), having started from a fresh object.
C15_VacuousDrift ==
    \A r \in Reqs :
        /\ "l38" \in steps[r] => frame[r].pre_latency = 0
        /\ "l21" \in steps[r] => frame[r].waited \in 0..100

\* C15 as amended (Spec): every request starts from a fresh object, so its
\* latency and error_state depend on its own elapsed time and draws only;
\* it waits a latency in [0, 0.2] s, and in [0, 0.01] s with both scales at
\* the 0.1 floor whenever at most 0.5 s passed between the construction and
\* update_state's reading of the clock.
C15_FreshPerRequest ==
    \A r \in Reqs :
        /\ "l38" \in steps[r] => frame[r].pre_latency = 0
        /\ "l43" \in steps[r] =>
              /\ frame[r].out_error = frame[r].flipped
              /\ frame[r].out_latency =
                     Max(0, frame[r].delta * frame[r].latency_scale)
        /\ ("l21" \in steps[r] /\ "l43" \in steps[r]) =>
              /\ frame[r].waited \in 0..2000
              /\ frame[r].time_diff <= 5 =>
                    /\ frame[r].latency_scale = 10
                    /\ frame[r].error_scale = 10
                    /\ frame[r].waited \in 0..100

\* the second request waits 0.005 s from scratch although an earlier
\* request has left its own state
C15_Witness ==
    \E r \in Reqs :
        /\ started = 2
        /\ hasLeft
        /\ lastLeft # Fields(state[r])
        /\ "l21" \in steps[r]
        /\ frame[r].time_diff = 0
        /\ frame[r].waited = 50

\* C16 (SpecObj): no call changes error_rate: it keeps the value 0.01 set
\* at construction, update_state writing latency, error_state and
\* last_request_time only.
C16_FrameOfAdvance ==
    /\ [](obj.error_rate = 1)
    /\ [][obj.error_rate' = obj.error_rate]_vars

\* an update_state call has changed the three other fields
C16_Witness ==
    /\ olast.op = "update_state"
    /\ obj.latency # olast.pre.latency
    /\ obj.error_state # olast.pre.error_state
    /\ obj.last_request_time # olast.pre.last_request_time
    /\ obj.error_rate = olast.pre.error_rate

\* C17 (SpecObj): one update_state call changes latency by at most 0.2 s
\* (2000), by at most 0.01 s (100) when elapsed <= 0.5 s, and after n calls
\* latency <= 0.2 n.
C17_BoundedStep ==
    /\ olast.op = "update_state" =>
          /\ Abs(obj.latency - olast.pre.latency) <= 2000
          /\ olast.time_diff <= 5 =>
                Abs(obj.latency - olast.pre.latency) <= 100
    /\ obj.latency <= 2000 * olast.updates

\* two calls have each raised latency by the full 0.2 s
C17_Witness ==
    /\ olast.op = "update_state"
    /\ olast.updates = 2
    /\ obj.latency - olast.pre.latency = 2000
    /\ obj.latency = 4000

\* C18 (SpecObj): a call flips error_state exactly when its draw is below
\* error_rate * error_scale, a TRUE flag stays TRUE across every call whose
\* draw is not below it, and after update_state calls only the flag is the
\* parity of the number of flips.
C18_Bursty ==
    olast.op = "update_state" =>
        LET below == 10 * olast.u < olast.pre.error_rate * olast.error_scale
        IN  /\ olast.flipped <=> below
            /\ (olast.pre.error_state /\ ~below) => obj.error_state
            /\ ncalls = olast.updates =>
                  (obj.error_state <=> olast.flips % 2 = 1)

\* C19 (SpecObj): reset sets latency to 0 and error_state to FALSE, leaves
\* last_request_time and error_rate as they were, a second reset changes
\* nothing, and no statement of handle_request is a call of reset.
C19_Reset ==
    /\ olast.op = "reset" =>
          /\ obj.latency = 0
          /\ obj.error_state = FALSE
          /\ obj.last_request_time = olast.pre.last_request_time
          /\ obj.error_rate = olast.pre.error_rate
          /\ Reset(obj) = obj
    /\ \A i \in 1..Len(HandleRequestSteps) :
          EntryOf(HandleRequestSteps[i]) \notin {"l14", "l15", "l16"}

\* reset has cleared a positive latency and a set flag of an object last
\* updated after time 0
C19_Witness ==
    /\ olast.op = "reset"
    /\ olast.pre.latency > 0
    /\ olast.pre.error_state
    /\ olast.pre.last_request_time > 0
    /\ obj.last_request_time > 0

====
